---------------------------- MODULE Spec2Model ----------------------------
(***************************************************************************)
(* A model of the structural type canonicalizer (src/utils/shape.ts), the  *)
(* per-program declaration index and base finder                           *)
(* (src/utils/declarations.ts) and the two lint rules built on them        *)
(* (src/rules/prefer-interface-extension.ts and the                        *)
(* no-duplicate-type-declaration rule that follows it in the same file).   *)
(*                                                                         *)
(* Strings of the program are sequences of one-character strings, so that  *)
(* concatenation, join, includes and the code-unit order used by           *)
(* Array.prototype.sort are computed rather than assumed.                  *)
(***************************************************************************)
EXTENDS Integers, Sequences, FiniteSets, TLC

(***************************************************************************)
(* Bounds of the model.                                                    *)
(***************************************************************************)
\* Largest depthLimit option handed to canonicalizeType by a direct call.
MaxDepth == 3
\* Longest candidate list handed to findBestInterfaceBase by a direct call.
MaxCandidates == 3
\* Most source files a program handle lists.
MaxFiles == 2

\* depthLimit's default in describeDeclaration and canonicalizeType.
DefaultDepthLimit == 8

(***************************************************************************)
(* Text.                                                                   *)
(***************************************************************************)
\* The characters the model's strings use, in UTF-16 code unit order.
Alphabet ==
  <<" ", "#", "&", "(", ")", ",", ".", "/", ":", ";", "<", "=", ">", "?",
    "A", "D", "L", "[", "]", "_", "a", "b", "c", "d", "e", "f", "g", "h", "i", "j",
    "k", "l", "m", "n", "o", "p", "q", "r", "s", "t", "u", "v", "w", "x",
    "y", "z", "{", "|", "}">>

\* Rank of a character in code unit order.
CodeUnit == [ch \in {Alphabet[i] : i \in 1..Len(Alphabet)} |->
               CHOOSE i \in 1..Len(Alphabet) : Alphabet[i] = ch]

\* a < b as JavaScript compares strings: by code units, a proper prefix first.
StrLess(a, b) ==
  \E i \in 1..Len(b) :
    /\ \A j \in 1..(i - 1) : j <= Len(a) /\ a[j] = b[j]
    /\ i > Len(a) \/ CodeUnit[a[i]] < CodeUnit[b[i]]

\* Array.prototype.join.
RECURSIVE Join(_, _)
Join(parts, sep) ==
  IF parts = <<>> THEN <<>>
  ELSE IF Len(parts) = 1 THEN parts[1]
  ELSE parts[1] \o sep \o Join(Tail(parts), sep)

\* String.prototype.includes.
Includes(s, sub) ==
  \E i \in 0..(Len(s) - Len(sub)) : SubSeq(s, i + 1, i + Len(sub)) = sub

\* String.prototype.startsWith.
StartsWith(s, prefix) ==
  Len(s) >= Len(prefix) /\ SubSeq(s, 1, Len(prefix)) = prefix

\* String.prototype.split on a one-character separator.
RECURSIVE Split(_, _)
Split(s, sep) ==
  IF \A i \in 1..Len(s) : s[i] # sep THEN <<s>>
  ELSE LET i == CHOOSE k \in 1..Len(s) : s[k] = sep /\ \A j \in 1..(k - 1) : s[j] # sep
       IN <<SubSeq(s, 1, i - 1)>> \o Split(SubSeq(s, i + 1, Len(s)), sep)

\* Array.prototype.sort with a comparator (stable): an element's place is
\* one more than the number of elements that go before it, which are those
\* less than it and its equals that came earlier.
SortBy(xs, less(_, _)) ==
  LET place(i) == 1 + Cardinality({j \in 1..Len(xs) :
                                     \/ less(xs[j], xs[i])
                                     \/ ~less(xs[i], xs[j]) /\ j < i})
  IN [k \in 1..Len(xs) |-> xs[CHOOSE i \in 1..Len(xs) : place(i) = k]]

\* Array.prototype.sort without a comparator, on strings.
SortStrings(xs) == SortBy(xs, StrLess)

IsSortedBy(xs, less(_, _)) ==
  \A i \in 1..Len(xs) : \A j \in (i + 1)..Len(xs) : ~less(xs[j], xs[i])

Range(xs) == {xs[i] : i \in 1..Len(xs)}

(***************************************************************************)
(* The checked types the type checker hands out: a finite type graph.      *)
(* A type is known by its identity; everything else about it is what the   *)
(* checker's accessors answer.                                             *)
(***************************************************************************)
NoType == "none"

Prop(name, optional, readonly, type) ==
  [name |-> name, optional |-> optional, readonly |-> readonly, type |-> type]

Type(kind, types, stringIndex, numberIndex, properties, calls, constructs, text, alias, apparent) ==
  [kind |-> kind, types |-> types, stringIndex |-> stringIndex,
   numberIndex |-> numberIndex, properties |-> properties, calls |-> calls,
   constructs |-> constructs, text |-> text, alias |-> alias, apparent |-> apparent]

Primitive(text) == Type("primitive", <<>>, NoType, NoType, <<>>, <<>>, <<>>, text, FALSE, NoType)
Object(properties, text) == Type("object", <<>>, NoType, NoType, properties, <<>>, <<>>, text, FALSE, NoType)
Indexed(stringIndex, numberIndex, properties, text) ==
  Type("object", <<>>, stringIndex, numberIndex, properties, <<>>, <<>>, text, FALSE, NoType)
Union(types, properties) == Type("union", types, NoType, NoType, properties, <<>>, <<>>, <<"u">>, FALSE, NoType)
Intersection(types, properties) ==
  Type("intersection", types, NoType, NoType, properties, <<>>, <<>>, <<"i">>, FALSE, NoType)

pa == Prop(<<"a">>, FALSE, FALSE, "string")
pb == Prop(<<"b">>, FALSE, FALSE, "number")
pc == Prop(<<"c">>, FALSE, FALSE, "string")

TypeIds ==
  {"string", "number", "A", "A2", "A3", "Aopt", "Aro", "AB", "BC", "ABC", "ACn", "Empty", "Fn",
   "AandC", "C", "U1", "U2", "IdxA", "I1", "I2", "Self", "IdxSelf", "List", "Cons",
   "NumOnly", "NumProp", "Both", "Mapped"}

TypeGraph == [id \in TypeIds |->
  CASE id = "string"  -> Primitive(<<"s", "t", "r", "i", "n", "g">>)
    [] id = "number"  -> Primitive(<<"n", "u", "m", "b", "e", "r">>)
    \* interface A { a: string }, type A2 = { a: string } (an alias: it carries
    \* an aliasSymbol) and interface A3 { a: string }
    [] id = "A"       -> Object(<<pa>>, <<"A">>)
    [] id = "A2"      -> [Object(<<pa>>, <<"A">>) EXCEPT !.alias = TRUE, !.apparent = "A2"]
    [] id = "A3"      -> Object(<<pa>>, <<"A">>)
    [] id = "Aopt"    -> Object(<<Prop(<<"a">>, TRUE, FALSE, "string")>>, <<"A">>)
    [] id = "Aro"     -> Object(<<Prop(<<"a">>, FALSE, TRUE, "string")>>, <<"A">>)
    \* members declared b before a
    [] id = "AB"      -> Object(<<pb, pa>>, <<"A">>)
    [] id = "BC"      -> Object(<<pb, pc>>, <<"A">>)
    [] id = "ABC"     -> Object(<<pc, pa, pb>>, <<"A">>)
    [] id = "ACn"     -> Object(<<pa, Prop(<<"c">>, FALSE, FALSE, "number")>>, <<"A">>)
    [] id = "C"       -> Object(<<pc>>, <<"A">>)
    [] id = "Empty"   -> Object(<<>>, <<"{", "}">>)
    [] id = "Fn"      -> [Object(<<>>, <<"f">>) EXCEPT !.calls = <<<<"(", "x", ":", " ", "s", "t", "r", "i", "n", "g", ")", ":", " ", "v", "o", "i", "d">>, <<"(", ")", ":", " ", "v", "o", "i", "d">>>>]
    \* A & C
    [] id = "AandC"   -> Intersection(<<"A", "C">>, <<pa, pc>>)
    \* A | (A & C) with its members in either order
    [] id = "U1"      -> Union(<<"A", "AandC">>, <<pa>>)
    [] id = "U2"      -> Union(<<"AandC", "A">>, <<pa>>)
    \* { [k: string]: A }
    [] id = "IdxA"    -> Indexed("A", NoType, <<>>, <<"x">>)
    \* A & { [k: string]: A } with its members in either order
    [] id = "I1"      -> Intersection(<<"A", "IdxA">>, <<pa>>)
    [] id = "I2"      -> Intersection(<<"IdxA", "A">>, <<pa>>)
    \* interface Self { s: Self }
    [] id = "Self"    -> Object(<<Prop(<<"s">>, FALSE, FALSE, "Self")>>, <<"A">>)
    \* interface IdxSelf { [k: string]: IdxSelf }
    [] id = "IdxSelf" -> Indexed("IdxSelf", NoType, <<>>, <<"x">>)
    \* type List = number | Cons;  interface Cons { t: List }
    [] id = "List"    -> [Union(<<"number", "Cons">>, <<>>) EXCEPT !.alias = TRUE, !.apparent = "List"]
    [] id = "Cons"    -> Object(<<Prop(<<"t">>, FALSE, FALSE, "List")>>, <<"A">>)
    \* { [i: number]: string }  and  { [i: number]: string; a: string }
    [] id = "NumOnly" -> Indexed(NoType, "string", <<>>, <<"{", " ", "[", "i", ":", " ", "n", "u", "m", "b", "e", "r", "]", ":", " ", "s", "t", "r", "i", "n", "g", ";", " ", "}">>)
    [] id = "NumProp" -> Indexed(NoType, "string", <<pa>>, <<"A">>)
    \* { [k: string]: string; [i: number]: string }
    [] id = "Both"    -> Indexed("string", "string", <<>>, <<"x">>)
    \* an aliased instantiation whose apparent type is another type object
    [] id = "Mapped"  -> [Object(<<>>, <<"m">>) EXCEPT !.alias = TRUE, !.apparent = "AB"]]

\* ts.Type accessors and ts.TypeChecker queries, answered from the graph.
isUnion(t) == TypeGraph[t].kind = "union"
isIntersection(t) == TypeGraph[t].kind = "intersection"
memberTypes(t) == TypeGraph[t].types
getProperties(t) == TypeGraph[t].properties
getCallSignatures(t) == TypeGraph[t].calls
getConstructSignatures(t) == TypeGraph[t].constructs
getStringIndexInfo(t) == TypeGraph[t].stringIndex
getNumberIndexInfo(t) == TypeGraph[t].numberIndex
typeToString(t) == TypeGraph[t].text
hasAlias(t) == TypeGraph[t].alias
getApparentType(t) == TypeGraph[t].apparent

(***************************************************************************)
(* canonicalizeType and collectProperties.  Each operator returns its      *)
(* result together with the log of the calls made to produce it; visit     *)
(* also returns the memo, which the code updates in place.  The call       *)
(* context g (who called, with what remaining depth, which types are being *)
(* visited further up the stack) is carried for the log only and never     *)
(* read by the computation.                                                *)
(***************************************************************************)
DepthLimitKey == <<"#", "D", "e", "p", "t", "h", "L", "i", "m", "i", "t">>

\* new WeakMap<ts.Type, string>(): no entry reads as undefined, here <<>>,
\* which the test `if (cached)` treats like the empty string.
EmptyMemo == [t \in TypeIds |-> <<>>]

TopContext == [caller |-> "top", callerDepth |-> 0, active |-> {}]

CallEvent(fn, type, depth, g, classified) ==
  [fn |-> fn, type |-> type, depth |-> depth, caller |-> g.caller,
   callerDepth |-> g.callerDepth, classified |-> classified,
   reentered |-> classified /\ type \in g.active]

RECURSIVE visit(_, _, _, _, _)
RECURSIVE visitEach(_, _, _, _, _)
RECURSIVE canonicalizeObject(_, _, _, _)
RECURSIVE collectProperties(_, _, _, _)
RECURSIVE collectEach(_, _, _, _)
RECURSIVE canonicalizeType(_, _, _, _)

\* The array next.types.map(...) builds: the first member's key before the
\* keys of the rest.
joinMembers(first, rest) ==
  [log |-> first.log \o rest.log, parts |-> <<first.key>> \o rest.parts, memo |-> rest.memo]

\* The members after the first: the memo the first member's visit leaves is
\* the memo they find.
visitRest(first, types, depth, normalizeAlias, g) ==
  joinMembers(first, visitEach(types, depth, first.memo, normalizeAlias, g))

\* next.types.map((t) => visit(t, depth - 1)): the members in order.
visitEach(types, depth, memo, normalizeAlias, g) ==
  IF types = <<>> THEN [parts |-> <<>>, memo |-> memo, log |-> <<>>]
  ELSE visitRest(visit(Head(types), depth, memo, normalizeAlias, g),
                 Tail(types), depth, normalizeAlias, g)

\* An index signature's value type, when there is one.
visitIndex(type, depth, memo, normalizeAlias, g) ==
  IF type # NoType THEN visit(type, depth, memo, normalizeAlias, g)
  ELSE [key |-> <<>>, memo |-> memo, log |-> <<>>]

\* The type visit classifies: the apparent type of an aliased type when
\* alias normalization is on and the apparent type is another type object.
resolveAlias(current, normalizeAlias) ==
  IF normalizeAlias /\ hasAlias(current) /\ getApparentType(current) # current
  THEN getApparentType(current) ELSE current

\* The test that selects the indexed-object branch.
hasIndexSignature(next) == getStringIndexInfo(next) # NoType

\* `union<${parts.join("|")}>` over the sorted member keys m.
unionKey(m) ==
  [memo |-> m.memo, log |-> m.log,
   key |-> <<"u", "n", "i", "o", "n", "<">> \o Join(SortStrings(m.parts), <<"|">>) \o <<">">>]

\* `intersection<${parts.join("&")}>` over the sorted member keys m.
intersectionKey(m) ==
  [memo |-> m.memo, log |-> m.log,
   key |-> <<"i", "n", "t", "e", "r", "s", "e", "c", "t", "i", "o", "n", "<">> \o Join(SortStrings(m.parts), <<"&">>) \o <<">">>]

\* `object[string:${s};number:${n}]${props}`
indexedKey(s, n, props) ==
  [memo |-> n.memo, log |-> s.log \o n.log \o props.log,
   key |-> <<"o", "b", "j", "e", "c", "t", "[", "s", "t", "r", "i", "n", "g", ":">> \o s.key \o <<";", "n", "u", "m", "b", "e", "r", ":">> \o n.key \o <<"]">> \o props.key]

\* The indexed-object branch after the string index value s was visited.
indexedObject(next, depth, normalizeAlias, h, s) ==
  indexedKey(s, visitIndex(getNumberIndexInfo(next), depth - 1, s.memo, normalizeAlias, h),
             canonicalizeObject(next, depth - 1, normalizeAlias, h))

\* `object${canonicalizeObject(next, depth - 1)}`
objectKey(memo, props) ==
  [memo |-> memo, log |-> props.log, key |-> <<"o", "b", "j", "e", "c", "t">> \o props.key]

\* `callable<${calls.join(";")}|${constructs.join(";")}>`
callableKey(next, memo) ==
  [key |-> <<"c", "a", "l", "l", "a", "b", "l", "e", "<">> \o Join(SortStrings(getCallSignatures(next)), <<";">>) \o <<"|">>
             \o Join(SortStrings(getConstructSignatures(next)), <<";">>) \o <<">">>,
   memo |-> memo, log |-> <<>>]

\* The branch of visit that the form of next selects; h is the call context
\* of the calls it makes.
classify(next, depth, memo, normalizeAlias, h) ==
  IF isUnion(next) THEN
    unionKey(visitEach(memberTypes(next), depth - 1, memo, normalizeAlias, h))
  ELSE IF isIntersection(next) THEN
    intersectionKey(visitEach(memberTypes(next), depth - 1, memo, normalizeAlias, h))
  ELSE IF hasIndexSignature(next) THEN
    indexedObject(next, depth, normalizeAlias, h,
                  visitIndex(getStringIndexInfo(next), depth - 1, memo, normalizeAlias, h))
  ELSE IF Len(getProperties(next)) # 0 THEN
    objectKey(memo, canonicalizeObject(next, depth - 1, normalizeAlias, h))
  ELSE IF Len(getCallSignatures(next)) # 0 \/ Len(getConstructSignatures(next)) # 0 THEN
    callableKey(next, memo)
  ELSE [key |-> typeToString(next), memo |-> memo, log |-> <<>>]

\* memo.set(current, result); return result
remember(current, depth, g, r) ==
  [key |-> r.key, memo |-> [r.memo EXCEPT ![current] = r.key],
   log |-> <<CallEvent("visit", current, depth, g, TRUE)>> \o r.log]

visit(current, depth, memo, normalizeAlias, g) ==
  IF depth <= 0
  THEN [key |-> DepthLimitKey, memo |-> memo,
        log |-> <<CallEvent("visit", current, depth, g, FALSE)>>]
  ELSE IF memo[current] # <<>>
  THEN [key |-> memo[current], memo |-> memo,
        log |-> <<CallEvent("visit", current, depth, g, FALSE)>>]
  ELSE remember(current, depth, g,
                classify(resolveAlias(current, normalizeAlias), depth, memo, normalizeAlias,
                         [caller |-> "visit", callerDepth |-> depth,
                          active |-> g.active \cup {current}]))

\* `${readonly}${prop.name}${optional}:${prop.typeKey}`
propertyEntry(prop) ==
  (IF prop.readonly THEN <<"r", "e", "a", "d", "o", "n", "l", "y", " ">> ELSE <<>>) \o prop.name
    \o (IF prop.optional THEN <<"?">> ELSE <<>>) \o <<":">> \o prop.typeKey

\* `{${entries.join(",")}}` over the property facts props.
objectEntries(objectType, depth, g, props) ==
  [log |-> <<CallEvent("canonicalizeObject", objectType, depth, g, FALSE)>> \o props.log,
   key |-> <<"{">> \o Join([i \in 1..Len(props.properties) |->
                            propertyEntry(props.properties[i])], <<",">>) \o <<"}">>]

canonicalizeObject(objectType, depth, normalizeAlias, g) ==
  objectEntries(objectType, depth, g,
                collectProperties(objectType, depth, normalizeAlias,
                                  [g EXCEPT !.caller = "canonicalizeObject",
                                            !.callerDepth = depth]))

\* a.name.localeCompare(b.name) < 0, for names of lower-case ASCII letters.
nameBefore(a, b) == StrLess(a.name, b.name)

\* The property fact of prop, whose type key is typeKey, before the facts
\* of the properties after it.
propertyFact(prop, typeKey, rest) ==
  [log |-> typeKey.log \o rest.log,
   properties |-> <<[name |-> prop.name, optional |-> prop.optional,
                     readonly |-> prop.readonly, typeKey |-> typeKey.key]>>
                  \o rest.properties]

\* collectEach with the property type canonicalized at the remaining depth
\* it was handed, not one less.
collectEach_sameDepth(props, depthLimit, normalizeAlias, g) ==
  IF props = <<>> THEN [properties |-> <<>>, log |-> <<>>]
  ELSE propertyFact(Head(props),
                    canonicalizeType(Head(props).type, depthLimit, normalizeAlias, g),
                    collectEach(Tail(props), depthLimit, normalizeAlias, g))

\* props.map(...): one property fact per own property, each type key from
\* a canonicalizeType call of its own.
collectEach(props, depthLimit, normalizeAlias, g) ==
  IF props = <<>> THEN [properties |-> <<>>, log |-> <<>>]
  ELSE propertyFact(Head(props),
                    canonicalizeType(Head(props).type, depthLimit - 1, normalizeAlias, g),
                    collectEach(Tail(props), depthLimit, normalizeAlias, g))

\* The facts of the own properties, sorted by name:
\* props.map(...).sort((a, b) => a.name.localeCompare(b.name)).
collectProperties(type, depthLimit, normalizeAlias, g) ==
  IF depthLimit <= 0
  THEN [properties |-> <<>>,
        log |-> <<CallEvent("collectProperties", type, depthLimit, g, FALSE)>>]
  ELSE IF Len(getProperties(type)) = 0
  THEN [properties |-> <<>>,
        log |-> <<CallEvent("collectProperties", type, depthLimit, g, FALSE)>>]
  ELSE [collectEach(getProperties(type), depthLimit, normalizeAlias,
                    [g EXCEPT !.caller = "collectProperties", !.callerDepth = depthLimit])
          EXCEPT !.log = <<CallEvent("collectProperties", type, depthLimit, g, FALSE)>> \o @,
                 !.properties = SortBy(@, nameBefore)]

\* return visit(type, depthLimit) with a memo of its own; the log has this
\* call first.
canonicalizeType(type, depthLimit, normalizeAlias, g) ==
  [visit(type, depthLimit, EmptyMemo, normalizeAlias,
         [g EXCEPT !.caller = "canonicalizeType", !.callerDepth = depthLimit])
     EXCEPT !.log = <<CallEvent("canonicalizeType", type, depthLimit, g, FALSE)>> \o @]

(***************************************************************************)
(* describeDeclaration.                                                    *)
(***************************************************************************)
NoSymbol == "none"
NoNode == "none"
NoShape == [kind |-> "none"]
\* No DeclarationInfo: null, or a callback that returned early.
NoInfo == [record |-> 0]

\* The symbols the checker knows: name, declaration nodes, declared type.
SymbolIds == {"IA", "TA", "IABC", "E", "IA2", "IAB", "IBC", "D", "TAB", "IAo", "IACn", "MA", "DA", "Ghost"}

SymbolTable == [s \in SymbolIds |->
  CASE s = "IA"    -> [name |-> <<"I", "A">>,    declarations |-> <<"n1">>,        type |-> "A"]
    [] s = "TA"    -> [name |-> <<"T", "A">>,    declarations |-> <<"n2">>,        type |-> "A2"]
    [] s = "IABC"  -> [name |-> <<"I", "A", "B", "C">>,  declarations |-> <<"n3", "n4">>,  type |-> "ABC"]
    [] s = "E"     -> [name |-> <<"E">>,     declarations |-> <<"n5">>,        type |-> "Empty"]
    [] s = "IA2"   -> [name |-> <<"I", "A", "2">>,   declarations |-> <<"n6">>,        type |-> "A3"]
    [] s = "IAB"   -> [name |-> <<"I", "A", "B">>,   declarations |-> <<"n7">>,        type |-> "AB"]
    [] s = "IBC"   -> [name |-> <<"I", "B", "C">>,   declarations |-> <<"n8">>,        type |-> "BC"]
    [] s = "D"     -> [name |-> <<"D">>,     declarations |-> <<"n9">>,        type |-> "AB"]
    [] s = "TAB"   -> [name |-> <<"T", "A", "B">>,   declarations |-> <<"n10">>,       type |-> "AB"]
    [] s = "IAo"   -> [name |-> <<"I", "A", "o">>,   declarations |-> <<"n11">>,       type |-> "Aopt"]
    [] s = "IACn"  -> [name |-> <<"I", "A", "C", "n">>,  declarations |-> <<"n12">>,       type |-> "ACn"]
    [] s = "MA"    -> [name |-> <<"M", "A">>,    declarations |-> <<"n13">>,       type |-> "A"]
    [] s = "DA"    -> [name |-> <<"D", "A">>,    declarations |-> <<"n14">>,       type |-> "A"]
    [] s = "Ghost" -> [name |-> <<"G", "h", "o", "s", "t">>, declarations |-> <<>>,            type |-> NoType]]

getName(symbol) == SymbolTable[symbol].name
getDeclarations(symbol) == SymbolTable[symbol].declarations
\* checker.getTypeAtLocation(decl), for decl the first declaration of symbol.
getTypeAtLocation(symbol) == SymbolTable[symbol].type

\* { kind: properties.length ? "object" : "other", canonical, properties }
shapeOf(canonical, properties) ==
  IF Len(properties) # 0
  THEN [kind |-> "object", canonical |-> canonical, properties |-> properties]
  ELSE [kind |-> "other", canonical |-> canonical, properties |-> <<>>]

describeDeclaration(symbol, depthLimit, normalizeAlias) ==
  IF getDeclarations(symbol) = <<>> THEN NoShape
  ELSE shapeOf(canonicalizeType(getTypeAtLocation(symbol), depthLimit, normalizeAlias,
                                TopContext).key,
               collectProperties(getTypeAtLocation(symbol), depthLimit - 1, normalizeAlias,
                                 TopContext).properties)

(***************************************************************************)
(* Source files and their declaration nodes.                               *)
(***************************************************************************)
FileIds == {"a", "b", "m", "d"}

\* statements: the nodes of the file in the order the deep walk meets them.
SourceFiles == [f \in FileIds |->
  CASE f = "a" -> [fileName |-> <<"/", "a", ".", "t", "s">>, isDeclarationFile |-> FALSE,
                   statements |-> <<"n1", "n2", "n3", "n4", "n5", "n15">>]
    [] f = "b" -> [fileName |-> <<"/", "b", ".", "t", "s">>, isDeclarationFile |-> FALSE,
                   statements |-> <<"n6", "n7", "n8", "n9", "n10", "n11", "n12", "n16", "n17">>]
    [] f = "m" -> [fileName |-> <<"/", "n", "o", "d", "e", "_", "m", "o", "d", "u", "l", "e", "s", "/", "m", ".", "t", "s">>, isDeclarationFile |-> FALSE,
                   statements |-> <<"n13">>]
    [] f = "d" -> [fileName |-> <<"/", "d", ".", "d", ".", "t", "s">>, isDeclarationFile |-> TRUE,
                   statements |-> <<"n14">>]]

NodeIds == {"n1", "n2", "n3", "n4", "n5", "n6", "n7", "n8", "n9", "n10", "n11", "n12",
            "n13", "n14", "n15", "n16", "n17"}

Node(kind, symbol, file, pos, extends, typeLiteral, members) ==
  [kind |-> kind, symbol |-> symbol, file |-> file, pos |-> pos, extends |-> extends,
   typeLiteral |-> typeLiteral, members |-> members]

\* kind: interface, alias or other (any other syntax).  symbol: what
\* checker.getSymbolAtLocation(node.name) answers.  extends: the interface has
\* a heritage clause.  typeLiteral: the alias is bound to a type literal.
\* members: the interface body's member count.
Nodes == [n \in NodeIds |->
  CASE n = "n1"  -> Node("interface", "IA",    "a", 10,  FALSE, FALSE, 1)
    [] n = "n2"  -> Node("alias",     "TA",    "a", 50,  FALSE, TRUE,  0)
    \* interface IABC { a; b }  merged with  interface IABC { c }
    [] n = "n3"  -> Node("interface", "IABC",  "a", 90,  FALSE, FALSE, 2)
    [] n = "n4"  -> Node("interface", "IABC",  "a", 120, FALSE, FALSE, 1)
    [] n = "n5"  -> Node("interface", "E",     "a", 150, FALSE, FALSE, 0)
    [] n = "n15" -> Node("other",     NoSymbol, "a", 170, FALSE, FALSE, 0)
    [] n = "n6"  -> Node("interface", "IA2",   "b", 5,   FALSE, FALSE, 1)
    [] n = "n7"  -> Node("interface", "IAB",   "b", 30,  FALSE, FALSE, 2)
    [] n = "n8"  -> Node("interface", "IBC",   "b", 60,  FALSE, FALSE, 2)
    \* interface D extends IA { b: number }
    [] n = "n9"  -> Node("interface", "D",     "b", 90,  TRUE,  FALSE, 1)
    \* type TAB = IAB
    [] n = "n10" -> Node("alias",     "TAB",   "b", 110, FALSE, FALSE, 0)
    [] n = "n11" -> Node("interface", "IAo",   "b", 130, FALSE, FALSE, 1)
    [] n = "n12" -> Node("interface", "IACn",  "b", 150, FALSE, FALSE, 2)
    \* declarations whose name resolves to no symbol, or to a symbol without declarations
    [] n = "n16" -> Node("alias",     NoSymbol, "b", 170, FALSE, TRUE, 0)
    [] n = "n17" -> Node("interface", "Ghost", "b", 190, FALSE, FALSE, 1)
    [] n = "n13" -> Node("interface", "MA",    "m", 10,  FALSE, FALSE, 1)
    [] n = "n14" -> Node("interface", "DA",    "d", 10,  FALSE, FALSE, 1)]

isInterfaceDeclaration(node) == Nodes[node].kind = "interface"
isTypeAliasDeclaration(node) == Nodes[node].kind = "alias"
getSymbolAtLocation(node) == Nodes[node].symbol

\* path.sep
PathSep == "/"

normalizePath(file) == Join(Split(file, PathSep), <<"/">>)

shouldSkipSourceFile(sourceFile) ==
  IF SourceFiles[sourceFile].isDeclarationFile THEN TRUE
  ELSE Includes(normalizePath(SourceFiles[sourceFile].fileName), <<"/", "n", "o", "d", "e", "_", "m", "o", "d", "u", "l", "e", "s", "/">>)

\* compareDeclarationInfo with the file paths left out of the comparison.
compareDeclarationInfo_byPosition(a, b) == Nodes[a.node].pos - Nodes[b.node].pos

\* The sign of fileA.localeCompare(fileB), for paths of lower-case ASCII
\* letters, "/" and ".", or else the difference of the positions.
compareByFile(fileA, fileB, a, b) ==
  IF fileA # fileB THEN (IF StrLess(fileA, fileB) THEN -1 ELSE 1)
  ELSE Nodes[a.node].pos - Nodes[b.node].pos

compareDeclarationInfo(a, b) ==
  compareByFile(normalizePath(SourceFiles[a.sourceFile].fileName),
                normalizePath(SourceFiles[b.sourceFile].fileName), a, b)

declaredBefore(a, b) == compareDeclarationInfo(a, b) < 0

\* Array.prototype.sort(compareDeclarationInfo)
sortDeclarations(list) == SortBy(list, declaredBefore)

(***************************************************************************)
(* getProgramState.                                                        *)
(***************************************************************************)
\* Map.get on a map held as a function: <<>> stands for undefined.
MapGet(map, key) == IF key \in DOMAIN map THEN map[key] ELSE <<>>

\* isBaseCandidate with every declaration form accepted.
isBaseCandidate_anyForm(node, shape) == TRUE

\* Whether the walk puts a declaration's record on the base-candidate list.
isBaseCandidate(node, shape) == isInterfaceDeclaration(node)

\* const info: DeclarationInfo = { symbol, node, sourceFile, shape } when
\* describeDeclaration gave a shape; record is the identity of the object.
newInfo(record, node, shape) ==
  IF shape = NoShape THEN NoInfo
  ELSE [record |-> record, symbol |-> getSymbolAtLocation(node), node |-> node,
        sourceFile |-> Nodes[node].file, shape |-> shape]

\* The walk's callback for one node, up to the DeclarationInfo it creates;
\* NoInfo when it returns without creating one.
indexNode(node, record) ==
  IF ~(isInterfaceDeclaration(node) \/ isTypeAliasDeclaration(node)) THEN NoInfo
  ELSE IF getSymbolAtLocation(node) = NoSymbol THEN NoInfo
  ELSE newInfo(record, node,
               describeDeclaration(getSymbolAtLocation(node), DefaultDepthLimit, TRUE))

\* The nodes of the program in the order the loop over getSourceFiles() and
\* the deep walk of each file that is not skipped meet them.
RECURSIVE walkOrder(_)
walkOrder(files) ==
  IF files = <<>> THEN <<>>
  ELSE (IF shouldSkipSourceFile(Head(files)) THEN <<>>
        ELSE SourceFiles[Head(files)].statements) \o walkOrder(Tail(files))

\* The DeclarationInfo objects the walk creates, in the order it creates
\* them; the objects are numbered after base by the place of their node.
createdInfos(nodes, base) ==
  SelectSeq([i \in 1..Len(nodes) |-> indexNode(nodes[i], base + i)],
            LAMBDA info : info # NoInfo)

\* What the callback does with the objects it creates: byNode.set(node, info);
\* a push onto the list under the canonical key when the shape is an object;
\* a push onto interfaceInfos for a base candidate.  Every list holds its
\* records in the order they were created.
indexInfos(infos) ==
  [byNode |-> [n \in {infos[i].node : i \in 1..Len(infos)} |->
                 infos[CHOOSE i \in 1..Len(infos) :
                         infos[i].node = n /\ \A j \in (i + 1)..Len(infos) : infos[j].node # n]],
   byCanonical |-> [k \in {infos[i].shape.canonical :
                             i \in {j \in 1..Len(infos) : infos[j].shape.kind = "object"}} |->
                      SelectSeq(infos, LAMBDA info : /\ info.shape.kind = "object"
                                                     /\ info.shape.canonical = k)],
   interfaceInfos |-> SelectSeq(infos, LAMBDA info : isBaseCandidate(info.node, info.shape)),
   allocated |-> 0]

\* The index after the walk of nodes and before the sorts.
indexNodes(nodes, base) ==
  [indexInfos(createdInfos(nodes, base)) EXCEPT !.allocated = Len(nodes)]

walkProgram(files, base) == indexNodes(walkOrder(files), base)

\* The lists of the index after the sorts that end getProgramState.
sortIndex(index) ==
  [index EXCEPT !.byCanonical = [k \in DOMAIN index.byCanonical |->
                                   sortDeclarations(index.byCanonical[k])],
                !.interfaceInfos = sortDeclarations(index.interfaceInfos)]

\* The ProgramState getProgramState builds on a cache miss; id is the
\* identity of the new state object, the records after it those of its
\* DeclarationInfo objects.
programState(id, index) ==
  [id |-> id, byCanonical |-> index.byCanonical, byNode |-> index.byNode,
   interfaceInfos |-> index.interfaceInfos, allocated |-> index.allocated]

buildProgramState(files, id) == programState(id, sortIndex(walkProgram(files, id)))

(***************************************************************************)
(* findBestInterfaceBase.                                                  *)
(***************************************************************************)
isSubset(base, derived) ==
  \A i \in 1..Len(base) : \E j \in 1..Len(derived) :
    /\ derived[j].name = base[i].name
    /\ derived[j].optional = base[i].optional
    /\ derived[j].readonly = base[i].readonly
    /\ derived[j].typeKey = base[i].typeKey

\* considerCandidate without the tie-break on declaration order: among
\* candidates of equal property count the first in the list stays.
considerCandidate_firstWins(best, candidate, target) ==
  IF candidate.symbol = target.symbol THEN best
  ELSE IF candidate.shape.kind # "object" THEN best
  ELSE IF Len(candidate.shape.properties) = 0 THEN best
  ELSE IF Len(candidate.shape.properties) >= Len(target.shape.properties) THEN best
  ELSE IF ~isSubset(candidate.shape.properties, target.shape.properties) THEN best
  ELSE IF best = NoInfo THEN candidate
  ELSE IF Len(candidate.shape.properties) > Len(best.shape.properties) THEN candidate
  ELSE best

\* One turn of the loop over the candidates: the best so far after candidate.
considerCandidate(best, candidate, target) ==
  IF candidate.symbol = target.symbol THEN best
  ELSE IF candidate.shape.kind # "object" THEN best
  ELSE IF Len(candidate.shape.properties) = 0 THEN best
  ELSE IF Len(candidate.shape.properties) >= Len(target.shape.properties) THEN best
  ELSE IF ~isSubset(candidate.shape.properties, target.shape.properties) THEN best
  ELSE IF best = NoInfo THEN candidate
  ELSE IF best.shape.kind # "object" THEN candidate
  ELSE IF Len(candidate.shape.properties) > Len(best.shape.properties) THEN candidate
  ELSE IF /\ Len(candidate.shape.properties) = Len(best.shape.properties)
          /\ compareDeclarationInfo(candidate, best) < 0 THEN candidate
  ELSE best

\* for (const candidate of interfaceInfos): the best after the whole list.
RECURSIVE bestOf(_, _, _)
bestOf(best, interfaceInfos, target) ==
  IF interfaceInfos = <<>> THEN best
  ELSE CHOOSE last \in
         {bestOf(next, Tail(interfaceInfos), target) :
            next \in {considerCandidate(best, Head(interfaceInfos), target)}} : TRUE

findBestInterfaceBase(target, interfaceInfos) ==
  IF target.shape.kind # "object" THEN NoInfo
  ELSE IF Len(target.shape.properties) = 0 THEN NoInfo
  ELSE bestOf(NoInfo, interfaceInfos, target)

(***************************************************************************)
(* The rules.                                                              *)
(***************************************************************************)
\* context.report({ messageId: "preferExtension", data: { name, base } })
\* when a base was found.
extensionReport(node, info, candidate) ==
  IF candidate = NoInfo THEN <<>>
  ELSE <<[node |-> node, messageId |-> "preferExtension",
          name |-> getName(info.symbol), base |-> getName(candidate.symbol)]>>

\* The handler from the lookup of the node's record on.
suggestBase(state, node, info) ==
  IF info = <<>> THEN <<>>
  ELSE IF info.shape.kind # "object" THEN <<>>
  ELSE IF Len(info.shape.properties) = 0 THEN <<>>
  ELSE extensionReport(node, info, findBestInterfaceBase(info, state.interfaceInfos))

\* The prefer-interface-extension rule's TSInterfaceDeclaration handler: the
\* reports it makes for node.
preferInterfaceExtension(state, node) ==
  IF Nodes[node].extends THEN <<>>
  ELSE IF Nodes[node].members = 0 THEN <<>>
  ELSE suggestBase(state, node, MapGet(state.byNode, node))

RECURSIVE uniqueBySymbolFrom(_, _)
uniqueBySymbolFrom(infos, seen) ==
  IF infos = <<>> THEN <<>>
  ELSE IF Head(infos).symbol \in seen THEN uniqueBySymbolFrom(Tail(infos), seen)
  ELSE <<Head(infos)>> \o uniqueBySymbolFrom(Tail(infos), seen \cup {Head(infos).symbol})

uniqueBySymbol(infos) == uniqueBySymbolFrom(infos, {})

\* Array.prototype.findIndex, counted from 0; -1 when nothing matches.
findIndexOfSymbol(infos, symbol) ==
  IF \E i \in 1..Len(infos) : infos[i].symbol = symbol
  THEN (CHOOSE i \in 1..Len(infos) :
          infos[i].symbol = symbol /\ \A j \in 1..(i - 1) : infos[j].symbol # symbol) - 1
  ELSE -1

\* The relative path, or the file name itself when the relative path is
\* empty or leaves the working directory; separators normalized to "/".
relativeOr(fileName, relative) ==
  IF relative = <<>> \/ StartsWith(relative, <<".", ".">>)
  THEN Join(Split(fileName, PathSep), <<"/">>)
  ELSE Join(Split(relative, PathSep), <<"/">>)

\* process.cwd() is taken to be the root directory: path.relative drops the
\* leading separator.
toRelativePath(fileName) ==
  relativeOr(fileName, IF StartsWith(fileName, <<PathSep>>) THEN Tail(fileName) ELSE fileName)

\* context.report({ messageId: "duplicateDeclaration", ... }) naming original.
duplicateReport(node, info, original) ==
  <<[node |-> node, messageId |-> "duplicateDeclaration",
     kind |-> IF isInterfaceDeclaration(info.node) THEN <<"i", "n", "t", "e", "r", "f", "a", "c", "e">> ELSE <<"t", "y", "p", "e">>,
     originalName |-> getName(original.symbol),
     file |-> toRelativePath(SourceFiles[original.sourceFile].fileName)]>>

\* duplicateAmong with the test on currentIndex letting index 0 through.
duplicateAmong_reportsOriginal(node, info, sortedUnique) ==
  IF Len(sortedUnique) <= 1 THEN <<>>
  ELSE IF findIndexOfSymbol(sortedUnique, info.symbol) < 0 THEN <<>>
  ELSE duplicateReport(node, info, sortedUnique[1])

\* reportDuplicate from sortedUnique on: nothing for a bucket of one symbol
\* or for the bucket's first symbol.
duplicateAmong(node, info, sortedUnique) ==
  IF Len(sortedUnique) <= 1 THEN <<>>
  ELSE IF findIndexOfSymbol(sortedUnique, info.symbol) <= 0 THEN <<>>
  ELSE duplicateReport(node, info, sortedUnique[1])

\* reportDuplicate from the lookup of the node's record on.
duplicateOf(state, node, info) ==
  IF info = <<>> THEN <<>>
  ELSE IF info.shape.kind # "object" THEN <<>>
  ELSE duplicateAmong(node, info,
                      uniqueBySymbol(MapGet(state.byCanonical, info.shape.canonical)))

\* The no-duplicate-type-declaration rule's reportDuplicate: the reports it
\* makes for node.
reportDuplicate(state, node) == duplicateOf(state, node, MapGet(state.byNode, node))

\* handleInterface and handleTypeAlias of the no-duplicate-type-declaration rule.
handleInterface(state, node) ==
  IF Nodes[node].extends THEN <<>> ELSE reportDuplicate(state, node)

handleTypeAlias(state, node) ==
  IF ~Nodes[node].typeLiteral THEN <<>> ELSE reportDuplicate(state, node)

(***************************************************************************)
(* State.                                                                  *)
(***************************************************************************)
VARIABLES
  options,            \* the depthLimit and normalizeAlias options canonicalizeType is called with
  canon,              \* the latest canonicalizeType call: its type, key and call log
  lastCanon,          \* the call before it: its type and key
  programFiles,       \* each program handle's getSourceFiles()
  programStateCache,  \* the module's WeakMap from program handle to ProgramState
  builds,             \* how many times each program's files were walked
  returned,           \* the latest getProgramState call: its program and the state returned
  nextId,             \* the identities handed to objects so far
  lint,               \* the rule instance linting a file, and how far the traversal is
  reports,            \* what the rule instance reported so far
  candidates,         \* the candidate list findBestInterfaceBase is called with
  baseCall            \* the latest findBestInterfaceBase call: its target and its result

canonVars == <<options, canon, lastCanon>>
indexVars == <<programFiles, programStateCache, builds, returned, nextId>>
lintVars == <<lint, reports>>
baseVars == <<candidates, baseCall>>
vars == <<options, canon, lastCanon, programFiles, programStateCache, builds, returned,
          nextId, lint, reports, candidates, baseCall>>

Programs == {"p1", "p2"}
NoState == [id |-> 0]
NoReturn == [program |-> "none", state |-> NoState]
NoLint == [rule |-> "none"]
NoBaseCall == [target |-> NoInfo, best |-> NoInfo, called |-> FALSE]

Depths == -1..MaxDepth
NoCall == [type |-> NoType, key |-> <<>>, log |-> <<>>]
NoLast == [type |-> NoType, key |-> <<>>]

\* The sequences of 1 to n distinct elements of S.
ListsOf(S, n) ==
  {xs \in UNION {[1..k -> S] : k \in 1..n} :
     \A i, j \in 1..Len(xs) : xs[i] = xs[j] => i = j}

CanonIdle == options = [depthLimit |-> DefaultDepthLimit, normalizeAlias |-> TRUE]
                /\ canon = NoCall /\ lastCanon = NoLast
IndexIdle == programFiles = [p \in Programs |-> <<>>]
                /\ programStateCache = [p \in Programs |-> NoState]
                /\ builds = [p \in Programs |-> 0] /\ returned = NoReturn /\ nextId = 0
LintIdle == lint = NoLint /\ reports = <<>>
BaseIdle == candidates = <<>> /\ baseCall = NoBaseCall

(***************************************************************************)
(* Calls of canonicalizeType.                                              *)
(***************************************************************************)
InitCanon ==
  /\ options \in [depthLimit : Depths, normalizeAlias : BOOLEAN]
  /\ canon = NoCall
  /\ lastCanon = NoLast
  /\ IndexIdle /\ LintIdle /\ BaseIdle

\* A call canonicalizeType(type, options) from outside the module.
Call(type, r) == [type |-> type, key |-> r.key, log |-> r.log]

CanonicalizeType(type) ==
  /\ canon' = Call(type, canonicalizeType(type, options.depthLimit, options.normalizeAlias,
                                          TopContext))
  /\ lastCanon' = [type |-> canon.type, key |-> canon.key]
  /\ UNCHANGED <<options, indexVars, lintVars, baseVars>>

NextCanon == \E type \in TypeIds : CanonicalizeType(type)

SpecCanon == InitCanon /\ [][NextCanon]_vars

(***************************************************************************)
(* Calls of getProgramState.                                               *)
(***************************************************************************)
\* programStateCache.set(program, state); return state
store(cache, program, state) ==
  [state |-> state, cache |-> [cache EXCEPT ![program] = state], built |-> TRUE]

\* getProgramState with the freshly built state never stored in the cache.
getProgramState_notStored(cache, program, files, id) ==
  IF cache[program] # NoState
  THEN [state |-> cache[program], cache |-> cache, built |-> FALSE]
  ELSE [state |-> buildProgramState(files, id), cache |-> cache, built |-> TRUE]

\* getProgramState: the state returned, the cache it leaves and whether it
\* walked the files; id is the identity a new state object would get.
getProgramState(cache, program, files, id) ==
  IF cache[program] # NoState
  THEN [state |-> cache[program], cache |-> cache, built |-> FALSE]
  ELSE store(cache, program, buildProgramState(files, id))

\* What a getProgramState(program) call does to the index variables.
CallGetProgramState(program, r) ==
  /\ programStateCache' = r.cache
  /\ builds' = [builds EXCEPT ![program] = @ + (IF r.built THEN 1 ELSE 0)]
  /\ returned' = [program |-> program, state |-> r.state]
  /\ nextId' = IF r.built THEN nextId + 1 + r.state.allocated ELSE nextId
  /\ UNCHANGED programFiles

InitIndex ==
  /\ programFiles \in [Programs -> ListsOf(FileIds, MaxFiles)]
  /\ programStateCache = [p \in Programs |-> NoState]
  /\ builds = [p \in Programs |-> 0]
  /\ returned = NoReturn
  /\ nextId = 0
  /\ CanonIdle /\ LintIdle /\ BaseIdle

\* A call getProgramState(program) from outside the module.
GetProgramState(program) ==
  /\ CallGetProgramState(program,
       getProgramState(programStateCache, program, programFiles[program], nextId + 1))
  /\ UNCHANGED <<canonVars, lintVars, baseVars>>

NextIndex == \E program \in Programs : GetProgramState(program)

SpecIndex == InitIndex /\ [][NextIndex]_vars

(***************************************************************************)
(* Lint passes: a rule instance is created for one file of a program and   *)
(* the traversal hands it the file's nodes in source order.                *)
(***************************************************************************)
\* The program was created again over the same files: two handles, one list.
InitLint ==
  /\ \E files \in ListsOf(FileIds, MaxFiles) : programFiles = [p \in Programs |-> files]
  /\ programStateCache = [p \in Programs |-> NoState]
  /\ builds = [p \in Programs |-> 0]
  /\ returned = NoReturn
  /\ nextId = 0
  /\ CanonIdle /\ LintIdle /\ BaseIdle

\* create(context) of either rule, with parser services that hold a program.
Created(rule, program, file, r) ==
  /\ CallGetProgramState(program, r)
  /\ lint' = [rule |-> rule, typed |-> TRUE, state |-> r.state, file |-> file, position |-> 0]

Create(rule, program, file) ==
  /\ lint = NoLint
  /\ file \in Range(programFiles[program])
  /\ Created(rule, program, file,
             getProgramState(programStateCache, program, programFiles[program], nextId + 1))
  /\ reports' = <<>>
  /\ UNCHANGED <<canonVars, baseVars>>

\* create(context) of either rule, without type information.
CreateWithoutProgram(rule, file) ==
  /\ lint = NoLint
  /\ lint' = [rule |-> rule, typed |-> FALSE, state |-> NoState, file |-> file, position |-> 0]
  /\ reports' = <<>>
  /\ UNCHANGED <<canonVars, indexVars, baseVars>>

\* The Program handler of a rule instance created without type information.
Program ==
  /\ lint # NoLint /\ ~lint.typed /\ lint.position = 0
  /\ reports' = Append(reports, [node |-> "Program", messageId |-> "missingTypeInformation"])
  /\ lint' = [lint EXCEPT !.position = Len(SourceFiles[lint.file].statements)]
  /\ UNCHANGED <<canonVars, indexVars, baseVars>>

Traversing == lint # NoLint /\ lint.typed /\ lint.position < Len(SourceFiles[lint.file].statements)
CurrentNode == SourceFiles[lint.file].statements[lint.position + 1]

Visit(made) ==
  /\ reports' = reports \o made
  /\ lint' = [lint EXCEPT !.position = @ + 1]
  /\ UNCHANGED <<canonVars, indexVars, baseVars>>

\* prefer-interface-extension: TSInterfaceDeclaration(node).
PreferExtensionInterface ==
  /\ Traversing /\ lint.rule = "prefer-interface-extension"
  /\ isInterfaceDeclaration(CurrentNode)
  /\ Visit(preferInterfaceExtension(lint.state, CurrentNode))

\* no-duplicate-type-declaration: TSInterfaceDeclaration(node).
NoDuplicateInterface ==
  /\ Traversing /\ lint.rule = "no-duplicate-type-declaration"
  /\ isInterfaceDeclaration(CurrentNode)
  /\ Visit(handleInterface(lint.state, CurrentNode))

\* no-duplicate-type-declaration: TSTypeAliasDeclaration(node).
NoDuplicateTypeAlias ==
  /\ Traversing /\ lint.rule = "no-duplicate-type-declaration"
  /\ isTypeAliasDeclaration(CurrentNode)
  /\ Visit(handleTypeAlias(lint.state, CurrentNode))

\* A node the rule instance has no handler for.
Unhandled ==
  /\ Traversing
  /\ \/ ~(isInterfaceDeclaration(CurrentNode) \/ isTypeAliasDeclaration(CurrentNode))
     \/ lint.rule = "prefer-interface-extension" /\ isTypeAliasDeclaration(CurrentNode)
  /\ Visit(<<>>)

\* The traversal is over and the rule instance is dropped.
Finish ==
  /\ lint # NoLint /\ lint.position = Len(SourceFiles[lint.file].statements)
  /\ lint' = NoLint
  /\ UNCHANGED <<reports, canonVars, indexVars, baseVars>>

Rules == {"prefer-interface-extension", "no-duplicate-type-declaration"}

NextLint ==
  \/ \E rule \in Rules, program \in Programs, file \in FileIds : Create(rule, program, file)
  \/ \E rule \in Rules, file \in FileIds : CreateWithoutProgram(rule, file)
  \/ Program
  \/ PreferExtensionInterface
  \/ NoDuplicateInterface
  \/ NoDuplicateTypeAlias
  \/ Unhandled
  \/ Finish

SpecLint == InitLint /\ [][NextLint]_vars

(***************************************************************************)
(* Calls of findBestInterfaceBase.                                         *)
(***************************************************************************)
\* The declaration records of a program over the files a and b.
PoolState == buildProgramState(<<"b", "a">>, 1)
TargetPool == {PoolState.byNode[n] : n \in DOMAIN PoolState.byNode}
CandidatePool == Range(PoolState.interfaceInfos)

InitBase ==
  /\ candidates \in ListsOf(CandidatePool, MaxCandidates) \cup {<<>>}
  /\ baseCall = NoBaseCall
  /\ CanonIdle /\ IndexIdle /\ LintIdle

\* A call findBestInterfaceBase(target, candidates) from outside the module.
FindBestInterfaceBase(target) ==
  /\ baseCall' = [target |-> target, best |-> findBestInterfaceBase(target, candidates),
                  called |-> TRUE]
  /\ UNCHANGED <<candidates, canonVars, indexVars, lintVars>>

NextBase == \E target \in TargetPool : FindBestInterfaceBase(target)

SpecBase == InitBase /\ [][NextBase]_vars

(***************************************************************************)
(* Properties of the canonicalizer, checked under SpecCanon.               *)
(***************************************************************************)
Called == canon.type # NoType
Events == Range(canon.log)

\* The types one step away from t in the type graph.
Successors(t) ==
  (Range(memberTypes(t)) \cup {getStringIndexInfo(t), getNumberIndexInfo(t)}
     \cup {getProperties(t)[i].type : i \in 1..Len(getProperties(t))}) \ {NoType}

\* The least set of types that holds S and the successors of its members.
RECURSIVE Closure(_)
Closure(S) ==
  IF UNION {Successors(u) : u \in S} \subseteq S THEN S
  ELSE Closure(S \cup UNION {Successors(u) : u \in S})

\* The types reachable from t in one step or more.
ReachableFrom(t) == Closure(Successors(t))

Cyclic(t) == t \in ReachableFrom(t)

\* t and u are a union, or an intersection, of the same members in another order.
Reordered(t, u) ==
  /\ t # u
  /\ TypeGraph[t].kind = TypeGraph[u].kind
  /\ TypeGraph[t].kind \in {"union", "intersection"}
  /\ memberTypes(t) # memberTypes(u)
  /\ Len(memberTypes(t)) = Len(memberTypes(u))
  /\ \A m \in TypeIds :
       Cardinality({i \in 1..Len(memberTypes(t)) : memberTypes(t)[i] = m})
         = Cardinality({i \in 1..Len(memberTypes(u)) : memberTypes(u)[i] = m})

\* C2: a union (an intersection) and the same union (intersection) with its
\* members in another order, canonicalized with the same options, get the
\* same key.
C2_OrderIndependent ==
  (Called /\ lastCanon.type # NoType /\ Reordered(lastCanon.type, canon.type))
    => canon.key = lastCanon.key

\* An object type with a property typed as itself.
SelfReferential(t) ==
  /\ TypeGraph[t].kind = "object"
  /\ \E i \in 1..Len(getProperties(t)) : getProperties(t)[i].type = t

\* C3: for a self-referential object type and a depth limit of at least 1
\* the key holds the "#DepthLimit" sentinel and nowhere an object truncated
\* to an empty property list.
C3_DepthSentinel ==
  (Called /\ SelfReferential(canon.type) /\ options.depthLimit >= 1)
    => /\ Includes(canon.key, DepthLimitKey)
       /\ ~Includes(canon.key, <<"o", "b", "j", "e", "c", "t", "{", "}">>)

\* C4: every call along the recursion visit -> visit,
\* visit -> canonicalizeObject -> collectProperties -> canonicalizeType -> visit
\* is made with a remaining depth strictly below that of the visit or
\* collectProperties call it descends from, and visit and collectProperties
\* make no call at all once their remaining depth is 0 or less.
C4_DepthDecreases ==
  \A e \in Events :
    /\ e.caller \in {"visit", "collectProperties"}
         => e.depth < e.callerDepth /\ e.callerDepth > 0
    /\ e.caller \in {"canonicalizeObject", "canonicalizeType"}
         => e.depth = e.callerDepth

\* A cyclic type was canonicalized through its cycle until the depth ran out.
C4_Witness ==
  /\ Called /\ Cyclic(canon.type) /\ options.depthLimit >= 3
  /\ \E e \in Events : e.caller = "collectProperties"
  /\ \E e \in Events : e.fn = "visit" /\ e.caller = "visit"
  /\ \E e \in Events : e.fn = "visit" /\ e.depth <= 0

\* C9: within one canonicalizeType call from outside, no type is classified
\* while a visit of the same type is in progress further up the stack, and
\* no type is classified more than once.
C9_NoReentry ==
  /\ \A e \in Events : ~e.reentered
  /\ \A i, j \in 1..Len(canon.log) :
       (canon.log[i].classified /\ canon.log[j].classified
          /\ canon.log[i].type = canon.log[j].type) => i = j

\* C10: a type that is no union and no intersection and has a string or a
\* numeric index signature gets a key of the form
\* object[string:<k>;number:<k>]<props>, the absent signature's key empty.
C10_IndexedObject ==
  LET next == resolveAlias(canon.type, options.normalizeAlias)
  IN (/\ Called /\ options.depthLimit >= 1
      /\ ~isUnion(next) /\ ~isIntersection(next)
      /\ (getStringIndexInfo(next) # NoType \/ getNumberIndexInfo(next) # NoType))
       => /\ StartsWith(canon.key, <<"o", "b", "j", "e", "c", "t", "[", "s", "t", "r", "i", "n", "g", ":">>)
          /\ Includes(canon.key, <<";", "n", "u", "m", "b", "e", "r", ":">>)
          /\ getStringIndexInfo(next) = NoType => StartsWith(canon.key, <<"o", "b", "j", "e", "c", "t", "[", "s", "t", "r", "i", "n", "g", ":", ";", "n", "u", "m", "b", "e", "r", ":">>)

(***************************************************************************)
(* Properties of the index, the base finder and the duplicate rule.        *)
(***************************************************************************)
Cached(p) == programStateCache[p] # NoState
InfosOf(state) == {state.byNode[n] : n \in DOMAIN state.byNode}
RecordsOf(state) == {info.record : info \in InfosOf(state)}
BucketsOf(state) == {state.byCanonical[k] : k \in DOMAIN state.byCanonical}

\* a's declaration is at or before b's: file path ascending, then position.
AtOrBefore(a, b) ==
  LET fileA == SourceFiles[a.sourceFile].fileName
      fileB == SourceFiles[b.sourceFile].fileName
  IN \/ StrLess(fileA, fileB)
     \/ fileA = fileB /\ Nodes[a.node].pos <= Nodes[b.node].pos

InDeclarationOrder(list) ==
  \A i, j \in 1..Len(list) : i < j => AtOrBefore(list[i], list[j])

Facts(shape) == Range(shape.properties)

\* The candidate is a structural base of the target.
Qualifies(candidate, target) ==
  /\ candidate.symbol # target.symbol
  /\ candidate.shape.kind = "object"
  /\ Facts(candidate.shape) # {}
  /\ Len(candidate.shape.properties) < Len(target.shape.properties)
  /\ Facts(candidate.shape) \subseteq Facts(target.shape)

\* C1: for a target with an object shape and properties, the result is none
\* exactly when no candidate of the list qualifies; otherwise it is a
\* qualifying candidate that no other qualifying candidate beats on property
\* count, nor, at equal count, on declaration order; whatever the list's order.
C1_BestBase ==
  (/\ baseCall.called
   /\ baseCall.target.shape.kind = "object"
   /\ Len(baseCall.target.shape.properties) > 0)
    => LET qualifying == {c \in Range(candidates) : Qualifies(c, baseCall.target)}
           best == baseCall.best
       IN IF qualifying = {} THEN best = NoInfo
          ELSE /\ best \in qualifying
               /\ \A c \in qualifying :
                    /\ Len(c.shape.properties) <= Len(best.shape.properties)
                    /\ Len(c.shape.properties) = Len(best.shape.properties)
                         => AtOrBefore(best, c)

\* Target IABC with IBC listed before IAB, both of two properties: IAB,
\* declared first, is the result; and IA, of one property, is passed over.
C1_Witness ==
  /\ baseCall.called /\ baseCall.target.node = "n3"
  /\ Len(candidates) = 3
  /\ candidates[1].node = "n8" /\ candidates[2].node = "n1" /\ candidates[3].node = "n7"
  /\ baseCall.best.node = "n7"

\* C5: a program's files are walked at most once, on the first call for the
\* handle; every call returns the state object the cache holds for its
\* handle; and the states of two handles are two objects with no
\* declaration record in common.
C5_BuildOnce ==
  /\ \A p \in Programs : builds[p] <= 1 /\ (Cached(p) <=> builds[p] = 1)
  /\ returned # NoReturn => returned.state = programStateCache[returned.program]
  /\ \A p, q \in Programs :
       (p # q /\ Cached(p) /\ Cached(q))
         => /\ programStateCache[p].id # programStateCache[q].id
            /\ RecordsOf(programStateCache[p]) \cap RecordsOf(programStateCache[q]) = {}

\* p1 was built, then p2, then p1 was asked for again; both hold records.
C5_Witness ==
  /\ Cached("p1") /\ Cached("p2")
  /\ programStateCache["p1"].id < programStateCache["p2"].id
  /\ returned.program = "p1"
  /\ RecordsOf(programStateCache["p1"]) # {} /\ RecordsOf(programStateCache["p2"]) # {}

\* C6: in every state getProgramState built, every list under byCanonical
\* and the interfaceInfos list is in declaration order.
C6_ListsSorted ==
  \A p \in Programs : Cached(p) =>
    /\ \A list \in BucketsOf(programStateCache[p]) : InDeclarationOrder(list)
    /\ InDeclarationOrder(programStateCache[p].interfaceInfos)

\* File b was walked before file a, and the bucket of { a: string } lists
\* a.ts:10, a.ts:50, b.ts:5.
C6_Witness ==
  \E p \in Programs :
    /\ Cached(p) /\ programFiles[p] = <<"b", "a">>
    /\ \E list \in BucketsOf(programStateCache[p]) :
         [i \in 1..Len(list) |-> list[i].node] = <<"n1", "n2", "n6">>

\* The bucket that holds a record of the node, or <<>>.
BucketOf(state, node) ==
  IF \E list \in BucketsOf(state) : \E i \in 1..Len(list) : list[i].node = node
  THEN CHOOSE list \in BucketsOf(state) : \E i \in 1..Len(list) : list[i].node = node
  ELSE <<>>

SymbolsOf(list) == {list[i].symbol : i \in 1..Len(list)}

\* The declarations the duplicate rule looks at.
Eligible(node) ==
  \/ isInterfaceDeclaration(node) /\ ~Nodes[node].extends
  \/ isTypeAliasDeclaration(node) /\ Nodes[node].typeLiteral

IsDuplicate(state, node) ==
  LET bucket == BucketOf(state, node)
  IN /\ bucket # <<>>
     /\ Cardinality(SymbolsOf(bucket)) >= 2
     /\ Eligible(node)
     /\ Nodes[node].symbol # bucket[1].symbol

CheckingDuplicates == lint # NoLint /\ lint.typed /\ lint.rule = "no-duplicate-type-declaration"

\* C7: once the duplicate rule has been handed a node, it has reported the
\* node exactly once, naming the first record of the node's bucket, when the
\* bucket holds two or more symbols and the node is an eligible declaration
\* of another symbol than that first record's; and not at all otherwise.
C7_DuplicatesReported ==
  CheckingDuplicates =>
    /\ \A r \in Range(reports) :
         \E k \in 1..lint.position : SourceFiles[lint.file].statements[k] = r.node
    /\ \A k \in 1..lint.position :
         LET node == SourceFiles[lint.file].statements[k]
             made == {i \in 1..Len(reports) : reports[i].node = node}
             bucket == BucketOf(lint.state, node)
         IN IF IsDuplicate(lint.state, node)
            THEN /\ Cardinality(made) = 1
                 /\ \A i \in made : reports[i].originalName = getName(bucket[1].symbol)
                 /\ \A i \in 1..Len(bucket) : AtOrBefore(bucket[1], bucket[i])
            ELSE made = {}

\* File a was linted to its end in a program that also holds file b: TA is
\* reported as a duplicate of IA and nothing else is.
C7_Witness ==
  /\ CheckingDuplicates /\ lint.file = "a"
  /\ lint.position = Len(SourceFiles["a"].statements)
  /\ Len(BucketOf(lint.state, "n1")) = 3
  /\ Len(reports) = 1 /\ reports[1].node = "n2" /\ reports[1].originalName = getName("IA")

\* C8 as stated: every record of interfaceInfos is an interface declaration
\* with an object shape, that is, with at least one own property.
C8_CandidatesAreObjectInterfaces ==
  \A p \in Programs : Cached(p) =>
    \A info \in Range(programStateCache[p].interfaceInfos) :
      /\ isInterfaceDeclaration(info.node)
      /\ info.shape.kind = "object"
      /\ Len(info.shape.properties) >= 1

\* C8 amended: the records of interfaceInfos are exactly the indexed
\* records of interface declarations, whatever their shape; no record of a
\* type alias is among them.
C8_CandidatesAreInterfaces ==
  \A p \in Programs : Cached(p) =>
    Range(programStateCache[p].interfaceInfos)
      = {info \in InfosOf(programStateCache[p]) : isInterfaceDeclaration(info.node)}

\* A built state that indexes the alias TA and lists the empty interface E,
\* whose shape is "other", among the base candidates.
C8_Witness ==
  \E p \in Programs :
    /\ Cached(p)
    /\ "n2" \in DOMAIN programStateCache[p].byNode
    /\ \E info \in Range(programStateCache[p].interfaceInfos) :
         info.node = "n5" /\ info.shape.kind = "other"

=============================================================================
